---- MODULE Spec2Model ----
(***************************************************************************)
(* TOPSIS ranking (src/topsis.py): validate_inputs, the five numeric       *)
(* stages and the orchestrating function topsis(); and the web service      *)
(* (src/web_service/app.py): its checks, perform_topsis and the handler of  *)
(* /api/analyze, run by concurrent requests over one upload folder.         *)
(*                                                                         *)
(* Numbers.  The code computes in IEEE doubles; the model computes in      *)
(* exact arithmetic extended with NaN.  Every quantity of the pipeline is  *)
(* an integer ratio under at most one square root, so it is kept as a      *)
(* record [k, n, d] with k = "num" or "nan" and read according to its      *)
(* stage:                                                                  *)
(*    criterion value, squared separation   n / d                          *)
(*    normalized, weighted, ideal value     n / sqrt(d)                    *)
(*    separation                            sqrt(n / d)                    *)
(*    score                                 sqrt(n) / (sqrt(n) + sqrt(d))  *)
(* Rounding is not modelled: two scores that are equal as real numbers are *)
(* equal in the model.                                                     *)
(***************************************************************************)
EXTENDS Integers, Sequences, FiniteSets, TLC

VARIABLES
    pc,          \* position inside topsis()
    input_file,  \* the table read_csv finds at input_file (or no file)
    out_wanted,  \* whether output_file was given
    df,          \* the DataFrame read from input_file
    weights,     \* list of weights
    impacts,     \* list of impact symbols
    message,     \* what validate_inputs returned / what was printed
    calls,       \* the numeric stages invoked so far, in order
    normalized,  \* normalize_matrix's result
    weighted,    \* apply_weights' result
    ideal,       \* find_ideal_solutions' results
    anti_ideal,
    s_plus,      \* calculate_separations' results
    s_minus,
    scores,      \* calculate_scores' results
    ranks,
    result_df,   \* the table topsis() returns
    out_file,    \* what was written to output_file
    req,         \* the /api/analyze requests in flight: locals and position
    uploads,     \* the files of UPLOAD_FOLDER, by name
    now          \* datetime.now(), in seconds

\* the state of the web service
web_vars == << req, uploads, now >>

vars == << pc, input_file, out_wanted, df, weights, impacts, message, calls,
           normalized, weighted, ideal, anti_ideal, s_plus, s_minus,
           scores, ranks, result_df, out_file, req, uploads, now >>

-----------------------------------------------------------------------------
(* Bounds of the model *)

\* most alternatives in a table of the numeric pipeline
MaxRows == 3
\* criterion values of the numeric pipeline are 1..MaxVal
MaxVal == 2
\* most alternatives in a table of the validation domain
MaxRowsV == 2

\* weights are scaled by the constants 2..MaxScale
MaxScale == 3
\* most alternatives in a table sent to the web service's checks
MaxRowsW == 1
\* the distinct names a client may give an uploaded file
MaxNames == 2
\* the clock advances up to this second
MaxClock == 1

\* "three or more columns": the threshold of validate_inputs
MinColumns == 3

-----------------------------------------------------------------------------
(* Cells of a table, as read_csv types them *)

NumCell(v) == [k |-> "num", v |-> v]
\* a cell holding non-numeric text; v tells texts apart
TextCell(v) == [k |-> "text", v |-> v]
\* a missing/empty cell (NaN in pandas)
NACell == [k |-> "na", v |-> 0]

Range(s) == {s[i] : i \in DOMAIN s}

\* len(df.columns) - 1
NumCriteria(d) == d.ncols - 1

\* df.iloc[:, 0]
Identifiers(d) == [i \in DOMAIN d.rows |-> d.rows[i][1]]

\* df.iloc[:, 1:], row by row
Criteria(d) == [i \in DOMAIN d.rows |-> [j \in 1..NumCriteria(d) |-> d.rows[i][j + 1]]]

\* pd.to_numeric(series) raises exactly when some cell is unparseable text;
\* numbers and missing cells convert (an empty series converts too)
ToNumericRaises(cells) == \E c \in cells : c.k = "text"

-----------------------------------------------------------------------------
(* validate_inputs, src/topsis.py:14-64 *)

MsgColumns == "Error: Input data must contain three or more columns"
MsgIdentifiers == "Error: First column must contain non-numeric identifiers"
MsgWeightCount == "Error: Number of weights must match number of criteria"
MsgWeightSign == "Error: All weights must be positive"
MsgImpactCount == "Error: Number of impacts must match number of criteria"
MsgImpactSymbol == "Error: Impacts must be '+' (benefit) or '-' (cost)"
MsgNumeric == "Error: All criteria columns must contain numeric values"
MsgPositive == "Error: All criteria values must be positive"
MsgOK == "OK"

Invalid(msg) == [ok |-> FALSE, msg |-> msg]

\* the cells of df.iloc[:, 1:]
CriteriaCells(d) == UNION {Range(Criteria(d)[i]) : i \in DOMAIN d.rows}

\* (numeric_df <= 0).any().any(): a comparison with NaN is False
AnyNonPositive(cells) == \E c \in cells : c.k = "num" /\ c.v <= 0

\* validate_inputs without the check of the first column
validate_inputs_any_identifier(d, w, imp) ==
    IF d.ncols < MinColumns THEN Invalid(MsgColumns)
    ELSE IF Len(w) # NumCriteria(d) THEN Invalid(MsgWeightCount)
    ELSE IF \E i \in DOMAIN w : w[i] <= 0 THEN Invalid(MsgWeightSign)
    ELSE IF Len(imp) # NumCriteria(d) THEN Invalid(MsgImpactCount)
    ELSE IF ~(\A i \in DOMAIN imp : imp[i] \in {"+", "-"}) THEN Invalid(MsgImpactSymbol)
    ELSE IF ToNumericRaises(CriteriaCells(d)) THEN Invalid(MsgNumeric)
    ELSE IF AnyNonPositive(CriteriaCells(d)) THEN Invalid(MsgPositive)
    ELSE [ok |-> TRUE, msg |-> MsgOK]

\* validate_inputs with the impact count checked before the weight sign
validate_inputs_impacts_first(d, w, imp) ==
    IF d.ncols < MinColumns THEN Invalid(MsgColumns)
    ELSE IF ~ToNumericRaises(Range(Identifiers(d))) THEN Invalid(MsgIdentifiers)
    ELSE IF Len(w) # NumCriteria(d) THEN Invalid(MsgWeightCount)
    ELSE IF Len(imp) # NumCriteria(d) THEN Invalid(MsgImpactCount)
    ELSE IF \E i \in DOMAIN w : w[i] <= 0 THEN Invalid(MsgWeightSign)
    ELSE IF ~(\A i \in DOMAIN imp : imp[i] \in {"+", "-"}) THEN Invalid(MsgImpactSymbol)
    ELSE IF ToNumericRaises(CriteriaCells(d)) THEN Invalid(MsgNumeric)
    ELSE IF AnyNonPositive(CriteriaCells(d)) THEN Invalid(MsgPositive)
    ELSE [ok |-> TRUE, msg |-> MsgOK]

validate_inputs(d, w, imp) ==
    IF d.ncols < MinColumns THEN Invalid(MsgColumns)
    ELSE IF ~ToNumericRaises(Range(Identifiers(d))) THEN Invalid(MsgIdentifiers)
    ELSE IF Len(w) # NumCriteria(d) THEN Invalid(MsgWeightCount)
    ELSE IF \E i \in DOMAIN w : w[i] <= 0 THEN Invalid(MsgWeightSign)
    ELSE IF Len(imp) # NumCriteria(d) THEN Invalid(MsgImpactCount)
    ELSE IF ~(\A i \in DOMAIN imp : imp[i] \in {"+", "-"}) THEN Invalid(MsgImpactSymbol)
    ELSE IF ToNumericRaises(CriteriaCells(d)) THEN Invalid(MsgNumeric)
    ELSE IF AnyNonPositive(CriteriaCells(d)) THEN Invalid(MsgPositive)
    ELSE [ok |-> TRUE, msg |-> MsgOK]

-----------------------------------------------------------------------------
(* Exact arithmetic with NaN *)

NaN == [k |-> "nan", n |-> 0, d |-> 1]
Val(n, d) == [k |-> "num", n |-> n, d |-> d]
IsNaN(x) == x.k = "nan"

Abs(a) == IF a < 0 THEN -a ELSE a

RECURSIVE GCD(_, _)
GCD(a, b) == IF b = 0 THEN a ELSE GCD(b, a % b)

\* n/d in lowest terms (d > 0)
Reduced(n, d) == LET g == GCD(Abs(n), d) IN Val(n \div g, d \div g)

\* sum of two ratios n/d
RatAdd(x, y) ==
    IF IsNaN(x) \/ IsNaN(y) THEN NaN
    ELSE Reduced(x.n * y.d + y.n * x.d, x.d * y.d)

RECURSIVE RatSum(_)
RatSum(s) == IF s = << >> THEN Val(0, 1) ELSE RatAdd(Head(s), RatSum(Tail(s)))

\* x ** 2 of a ratio
RatSquare(x) == IF IsNaN(x) THEN NaN ELSE Reduced(x.n * x.n, x.d * x.d)

\* x <= y for two values n/sqrt(d); any comparison with NaN is false
SurdLE(x, y) ==
    /\ ~IsNaN(x) /\ ~IsNaN(y)
    /\ IF x.n <= 0 /\ y.n >= 0 THEN TRUE
       ELSE IF x.n > 0 /\ y.n < 0 THEN FALSE
       ELSE IF x.n >= 0 THEN x.n * x.n * y.d <= y.n * y.n * x.d
       ELSE y.n * y.n * x.d <= x.n * x.n * y.d

SurdEq(x, y) == SurdLE(x, y) /\ SurdLE(y, x)

\* (x - y) ** 2 for two values n/sqrt(d) of one column (the same d): a ratio
SurdDiffSquared(x, y) ==
    IF IsNaN(x) \/ IsNaN(y) THEN NaN
    ELSE Reduced((x.n - y.n) * (x.n - y.n), x.d)

-----------------------------------------------------------------------------
(* normalize_matrix, src/topsis.py:67-83 *)

\* df.values.astype(float): text raises ValueError, a missing cell is NaN
AsFloat(c) == IF c.k = "num" THEN Val(c.v, 1) ELSE NaN
AsTypeFloatRaises(crit) == \E i \in DOMAIN crit : \E c \in Range(crit[i]) : c.k = "text"

\* column j of a matrix (a sequence of rows)
Column(m, j) == [i \in DOMAIN m |-> m[i][j]]

NumColumns(m) == IF m = << >> THEN 0 ELSE Len(m[1])

\* the column sum taken without squaring
SumOfColumn(m, j) == RatSum([i \in DOMAIN m |-> m[i][j]])

\* (matrix ** 2).sum(axis=0)[j]: the squared norm of column j
SquaredNorm(m, j) == RatSum([i \in DOMAIN m |-> RatSquare(m[i][j])])

\* a / sqrt(n2): 0/0 and anything with NaN is NaN
DivideByNorm(a, n2) ==
    IF IsNaN(a) \/ IsNaN(n2) \/ n2.n = 0 THEN NaN
    ELSE Val(a.n, n2.n)

normalize_matrix(crit) ==
    LET matrix == [i \in DOMAIN crit |-> [j \in DOMAIN crit[i] |-> AsFloat(crit[i][j])]]
        norms == [j \in 1..NumColumns(matrix) |-> SquaredNorm(matrix, j)]
    IN  [i \in DOMAIN matrix |->
            [j \in DOMAIN matrix[i] |-> DivideByNorm(matrix[i][j], norms[j])]]

-----------------------------------------------------------------------------
(* apply_weights, src/topsis.py:86-99 *)

\* numpy broadcasts a weight array of the row length, or of length 1
BroadcastRaises(m, w) == m # << >> /\ Len(w) # NumColumns(m) /\ Len(w) # 1

\* the weights reaching the first column only
WeightFirstOnly(w, j) == IF j = 1 THEN w[1] ELSE 1

WeightAt(w, j) == IF Len(w) = 1 THEN w[1] ELSE w[j]

Scale(x, wj) == IF IsNaN(x) THEN NaN ELSE Val(wj * x.n, x.d)

apply_weights(m, w) ==
    [i \in DOMAIN m |-> [j \in DOMAIN m[i] |-> Scale(m[i][j], WeightAt(w, j))]]

-----------------------------------------------------------------------------
(* find_ideal_solutions, src/topsis.py:102-127 *)

\* ndarray.max() / .min() as a reduction from the left; NaN propagates
RECURSIVE ReduceMax(_, _)
ReduceMax(acc, s) ==
    IF s = << >> THEN acc
    ELSE ReduceMax(IF IsNaN(acc) \/ IsNaN(Head(s)) THEN NaN
                   ELSE IF SurdLE(acc, Head(s)) THEN Head(s) ELSE acc, Tail(s))

RECURSIVE ReduceMin(_, _)
ReduceMin(acc, s) ==
    IF s = << >> THEN acc
    ELSE ReduceMin(IF IsNaN(acc) \/ IsNaN(Head(s)) THEN NaN
                   ELSE IF SurdLE(Head(s), acc) THEN Head(s) ELSE acc, Tail(s))

ColMax(col) == ReduceMax(Head(col), Tail(col))
ColMin(col) == ReduceMin(Head(col), Tail(col))

\* max()/min() of a zero-size column raises ValueError
ReductionRaises(m, imp) == m = << >>

\* the ideal taken as the column maximum whatever the impact
IdealAlwaysMax(col, sym) == ColMax(col)

IdealOf(col, sym) == IF sym = "+" THEN ColMax(col) ELSE ColMin(col)
\* the anti-ideal taken as the column maximum whatever the impact
AntiIdealAlwaysMax(col, sym) == ColMax(col)

AntiIdealOf(col, sym) == IF sym = "+" THEN ColMin(col) ELSE ColMax(col)

find_ideal_solutions(m, imp) ==
    [ideal |-> [j \in 1..NumColumns(m) |-> IdealOf(Column(m, j), imp[j])],
     anti_ideal |-> [j \in 1..NumColumns(m) |-> AntiIdealOf(Column(m, j), imp[j])]]

-----------------------------------------------------------------------------
(* calculate_separations, src/topsis.py:130-147 *)

\* sqrt(((row - point) ** 2).sum()): kept as the ratio under the root
Distance(row, point) ==
    RatSum([j \in DOMAIN row |-> SurdDiffSquared(row[j], point[j])])

\* the two separations taken from the wrong points
calculate_separations_swapped(m, idl, anti) ==
    [s_plus |-> [i \in DOMAIN m |-> Distance(m[i], anti)],
     s_minus |-> [i \in DOMAIN m |-> Distance(m[i], idl)]]

calculate_separations(m, idl, anti) ==
    [s_plus |-> [i \in DOMAIN m |-> Distance(m[i], idl)],
     s_minus |-> [i \in DOMAIN m |-> Distance(m[i], anti)]]

-----------------------------------------------------------------------------
(* calculate_scores, src/topsis.py:150-170 *)

\* s_plus + s_minus != 0 for two roots; NaN != 0 is True
SumNonZero(sp, sm) == IsNaN(sp) \/ IsNaN(sm) \/ sp.n # 0 \/ sm.n # 0

\* s_minus / (s_plus + s_minus): sqrt(a)/(sqrt(a)+sqrt(b)) depends on a:b only,
\* kept in lowest terms; 0/0 is NaN (the warning is silenced by errstate)
Quotient(sm, sp) ==
    IF IsNaN(sp) \/ IsNaN(sm) \/ (sp.n = 0 /\ sm.n = 0) THEN NaN
    ELSE LET a == sm.n * sp.d
             b == sp.n * sm.d
             g == GCD(a, b)
         IN  Val(a \div g, b \div g)

\* the literal 0 of np.where
ScoreZero == Val(0, 1)
ScoreOne == Val(1, 0)

\* the quotient without the np.where guard
ScoreUnguarded(sp, sm) == Quotient(sm, sp)

\* np.where(cond, quotient, 0)
ScoreOf(sp, sm) == IF SumNonZero(sp, sm) THEN Quotient(sm, sp) ELSE ScoreZero

\* x < y for two scores
ScoreLT(x, y) == ~IsNaN(x) /\ ~IsNaN(y) /\ x.n * y.d < y.n * x.d
ScoreEq(x, y) == ~IsNaN(x) /\ ~IsNaN(y) /\ x.n * y.d = y.n * x.d

Min(S) == CHOOSE x \in S : \A y \in S : x <= y
Max(S) == CHOOSE x \in S : \A y \in S : y <= x

\* the values in the order rank() walks them: descending
RECURSIVE InsertDescending(_, _)
InsertDescending(x, s) ==
    IF s = << >> THEN << x >>
    ELSE IF ScoreLT(Head(s), x) THEN << x >> \o s
    ELSE << Head(s) >> \o InsertDescending(x, Tail(s))

RECURSIVE SortedDescending(_)
SortedDescending(sc) ==
    IF sc = << >> THEN << >>
    ELSE InsertDescending(Head(sc), SortedDescending(Tail(sc)))

\* rank(method='dense'): one more than the number of distinct greater values
RankDense(sc) ==
    [i \in 1..Len(sc) |->
        1 + Cardinality({a \in 1..Len(sc) :
                            /\ ScoreLT(sc[i], sc[a])
                            /\ \A b \in 1..(a - 1) : ~ScoreEq(sc[a], sc[b])})]

\* rank(method='max'): equal values share the last position of their run
RankMax(sc) ==
    [i \in 1..Len(sc) |->
        Cardinality({a \in 1..Len(sc) : ~ScoreLT(sc[a], sc[i])})]

\* rank(method='first'): equal values ranked in the order they appear
RankFirst(sc) ==
    [i \in 1..Len(sc) |->
        1 + Cardinality({a \in 1..Len(sc) :
                            \/ ScoreLT(sc[i], sc[a])
                            \/ (ScoreEq(sc[a], sc[i]) /\ a < i)})]

\* Series.rank(method='min', ascending=False): every member of a run of equal
\* values gets the 1-based position at which the run starts
RankMin(sc) ==
    LET sorted == SortedDescending(sc)
    IN  [i \in 1..Len(sc) |-> Min({a \in 1..Len(sc) : ScoreEq(sorted[a], sc[i])})]

\* .astype(int) raises on a NaN rank, which is the rank of a NaN score
AsTypeIntRaises(sc) == \E i \in DOMAIN sc : IsNaN(sc[i])

calculate_scores(sp, sm) ==
    LET sc == [i \in DOMAIN sp |-> ScoreOf(sp[i], sm[i])]
    IN  [scores |-> sc,
         ranks |-> IF AsTypeIntRaises(sc) THEN << >> ELSE RankMin(sc)]

-----------------------------------------------------------------------------
(* topsis(), src/topsis.py:173-241 *)

NoTable == [ncols |-> 0, rows |-> << >>]
NoFile == [exists |-> FALSE, ncols |-> 0, rows |-> << >>]
File(t) == [exists |-> TRUE, ncols |-> t.ncols, rows |-> t.rows]
TableOf(f) == [ncols |-> f.ncols, rows |-> f.rows]
NothingWritten == [written |-> FALSE, rows |-> << >>]

MsgNotFound == "Error: File not found"

\* the orderings of a set of row positions, as sequences
RECURSIVE Orderings(_)
Orderings(S) ==
    IF S = {} THEN {<< >>}
    ELSE UNION {{<< x >> \o t : t \in Orderings(S \ {x})} : x \in S}

\* validation whose failure does not leave
ContinueAnyway(ok) == "normalize"

\* lines 204-206: an invalid input prints the message and leaves by sys.exit(1)
AfterValidation(ok) == IF ok THEN "normalize" ELSE "exited"

\* lines 229-231: the copy of df with the two new columns; row i keeps its
\* index label i
AttachColumns(d, sc, rk) ==
    [i \in DOMAIN d.rows |->
        [idx |-> i, cells |-> d.rows[i], score |-> sc[i], rank |-> rk[i]]]

\* line 229: the columns are assigned to df.copy(), so df keeps its shape
DfAfterAssign(d) == d

\* sort_values('Rank', ascending=False)
sort_values_descending(fr) ==
    {[a \in DOMAIN fr |-> fr[p[a]]] :
        p \in {q \in Orderings(DOMAIN fr) :
                 \A a, b \in DOMAIN fr : a < b => fr[q[a]].rank >= fr[q[b]].rank}}

\* line 234: DataFrame.sort_values('Rank') sorts with kind='quicksort', which
\* is not a stable sort: the rows come out in ascending Rank, and rows of equal
\* Rank in an order the sort does not promise
sort_values(fr) ==
    {[a \in DOMAIN fr |-> fr[p[a]]] :
        p \in {q \in Orderings(DOMAIN fr) :
                 \A a, b \in DOMAIN fr : a < b => fr[q[a]].rank <= fr[q[b]].rank}}

\* no request was sent and UPLOAD_FOLDER is empty
NoRequests ==
    /\ req = << >>
    /\ uploads = << >>
    /\ now = 0

Unset ==
    /\ pc = "start"
    /\ df = NoTable
    /\ message = ""
    /\ calls = << >>
    /\ normalized = << >>
    /\ weighted = << >>
    /\ ideal = << >>
    /\ anti_ideal = << >>
    /\ s_plus = << >>
    /\ s_minus = << >>
    /\ scores = << >>
    /\ ranks = << >>
    /\ result_df = << >>
    /\ out_file = NothingWritten

\* lines 192-206: read the file, validate, leave on failure
Validate ==
    /\ pc = "start"
    /\ IF ~input_file.exists
       THEN /\ message' = MsgNotFound
            /\ pc' = "exited"
            /\ df' = df
       ELSE LET r == validate_inputs(TableOf(input_file), weights, impacts)
            IN  /\ df' = TableOf(input_file)
                /\ message' = r.msg
                /\ pc' = AfterValidation(r.ok)
    /\ UNCHANGED << input_file, out_wanted, weights, impacts, calls, normalized,
                    weighted, ideal, anti_ideal, s_plus, s_minus, scores, ranks,
                    result_df, out_file,
                    req, uploads, now >>

\* line 214
Normalize ==
    /\ pc = "normalize"
    /\ calls' = Append(calls, "normalize_matrix")
    /\ IF AsTypeFloatRaises(Criteria(df))
       THEN pc' = "raised" /\ normalized' = normalized
       ELSE pc' = "weights" /\ normalized' = normalize_matrix(Criteria(df))
    /\ UNCHANGED << input_file, out_wanted, df, weights, impacts, message,
                    weighted, ideal, anti_ideal, s_plus, s_minus, scores, ranks,
                    result_df, out_file,
                    req, uploads, now >>

\* line 217
ApplyWeights ==
    /\ pc = "weights"
    /\ calls' = Append(calls, "apply_weights")
    /\ IF BroadcastRaises(normalized, weights)
       THEN pc' = "raised" /\ weighted' = weighted
       ELSE pc' = "ideal" /\ weighted' = apply_weights(normalized, weights)
    /\ UNCHANGED << input_file, out_wanted, df, weights, impacts, message,
                    normalized, ideal, anti_ideal, s_plus, s_minus, scores, ranks,
                    result_df, out_file,
                    req, uploads, now >>

\* line 220
FindIdeal ==
    /\ pc = "ideal"
    /\ calls' = Append(calls, "find_ideal_solutions")
    /\ IF ReductionRaises(weighted, impacts)
       THEN pc' = "raised" /\ UNCHANGED << ideal, anti_ideal >>
       ELSE LET r == find_ideal_solutions(weighted, impacts)
            IN  /\ pc' = "separations"
                /\ ideal' = r.ideal
                /\ anti_ideal' = r.anti_ideal
    /\ UNCHANGED << input_file, out_wanted, df, weights, impacts, message,
                    normalized, weighted, s_plus, s_minus, scores, ranks,
                    result_df, out_file,
                    req, uploads, now >>

\* line 223
CalcSeparations ==
    /\ pc = "separations"
    /\ calls' = Append(calls, "calculate_separations")
    /\ LET r == calculate_separations(weighted, ideal, anti_ideal)
       IN  /\ s_plus' = r.s_plus
           /\ s_minus' = r.s_minus
    /\ pc' = "scores"
    /\ UNCHANGED << input_file, out_wanted, df, weights, impacts, message,
                    normalized, weighted, ideal, anti_ideal, scores, ranks,
                    result_df, out_file,
                    req, uploads, now >>

\* line 226; scores holds what line 165 computed also when line 168 raises
CalcScores ==
    /\ pc = "scores"
    /\ calls' = Append(calls, "calculate_scores")
    /\ LET r == calculate_scores(s_plus, s_minus)
       IN  /\ scores' = r.scores
           /\ ranks' = r.ranks
           /\ pc' = IF AsTypeIntRaises(r.scores) THEN "raised" ELSE "result"
    /\ UNCHANGED << input_file, out_wanted, df, weights, impacts, message,
                    normalized, weighted, ideal, anti_ideal, s_plus, s_minus,
                    result_df, out_file,
                    req, uploads, now >>

\* lines 229-241: attach the columns, sort by Rank, save, return
SortAndReturn ==
    /\ pc = "result"
    /\ \E sorted \in sort_values(AttachColumns(df, scores, ranks)) :
          /\ result_df' = sorted
          /\ out_file' = IF out_wanted THEN [written |-> TRUE, rows |-> sorted]
                         ELSE out_file
    /\ df' = DfAfterAssign(df)
    /\ pc' = "done"
    /\ UNCHANGED << input_file, out_wanted, weights, impacts, message, calls,
                    normalized, weighted, ideal, anti_ideal, s_plus, s_minus,
                    scores, ranks,
                    req, uploads, now >>

Next ==
    \/ Validate
    \/ Normalize
    \/ ApplyWeights
    \/ FindIdeal
    \/ CalcSeparations
    \/ CalcScores
    \/ SortAndReturn

-----------------------------------------------------------------------------
(* Inputs *)

\* row i of a well-formed table: a text identifier, then the criteria
LabelledRows(n, c) == [i \in 1..n |-> << TextCell(i) >> \o c[i]]

PositiveCells == {NumCell(v) : v \in 1..MaxVal}

\* the numeric pipeline: tables of MinColumns columns with positive criteria,
\* unequal weights under every pair of impacts (swapping the two criterion
\* columns gives the other weighting), and a zero weight that validation
\* turns away
PipelineWeights == {<< 1, 2 >>, << 0, 1 >>}

Init ==
    /\ Unset
    /\ NoRequests
    /\ \/ input_file = NoFile
       \/ \E n \in 1..MaxRows :
            \E c \in [1..n -> [1..(MinColumns - 1) -> PositiveCells]] :
               input_file = File([ncols |-> MinColumns, rows |-> LabelledRows(n, c)])
    /\ out_wanted = TRUE
    /\ weights \in PipelineWeights
    /\ impacts \in [1..(MinColumns - 1) -> {"+", "-"}]

Spec == Init /\ [][Next]_vars

\* the validation domain: one column too few or enough, any mix of positive,
\* non-positive, textual and missing cells, identifiers that are text or numbers
CellKinds == {NumCell(1), NumCell(0), TextCell(0), NACell}
IdKinds == {TextCell(0), NumCell(7)}

WeightLists == {<< 1 >>, << 0 >>, << 1, 2 >>, << 1, 0 >>}
ImpactLists == {<< "-" >>, << "x" >>, << "+", "-" >>, << "+", "x" >>}

InitV ==
    /\ Unset
    /\ NoRequests
    /\ \E n \in 0..MaxRowsV, k \in (MinColumns - 2)..(MinColumns - 1) :
         \E ids \in [1..n -> IdKinds], c \in [1..n -> [1..k -> CellKinds]] :
            input_file = File([ncols |-> k + 1,
                               rows |-> [i \in 1..n |-> << ids[i] >> \o c[i]]])
    /\ out_wanted \in BOOLEAN
    /\ weights \in WeightLists
    /\ impacts \in ImpactLists

SpecV == InitV /\ [][Next]_vars

\* the domain of the relations between runs: valid tables whose criterion
\* values lie at the two ends of 1..MaxVal, valid weights, every pair of impacts
EndCells == {NumCell(1), NumCell(MaxVal)}

InitR ==
    /\ Unset
    /\ NoRequests
    /\ \E n \in 1..MaxRows :
         \E c \in [1..n -> [1..(MinColumns - 1) -> EndCells]] :
            input_file = File([ncols |-> MinColumns, rows |-> LabelledRows(n, c)])
    /\ out_wanted = TRUE
    /\ weights = << 1, 2 >>
    /\ impacts \in [1..(MinColumns - 1) -> {"+", "-"}]

SpecR == InitR /\ [][Next]_vars

-----------------------------------------------------------------------------
(* The web service's checks, src/web_service/app.py:110-174.  Weights and   *)
(* impacts are the lists the form strings split into.                       *)

WebWeightsEmpty == "Weights cannot be empty"
WebWeightsSign == "All weights must be positive numbers (> 0)"
WebImpactsEmpty == "Impacts cannot be empty"
WebImpactsSymbol == "Invalid impacts. Use only '+' (benefit) or '-' (cost)"
WebColumns == "Input data must contain three or more columns"
WebIdentifiers == "First column must contain non-numeric identifiers"
WebWeightCount == "Number of weights must match criteria"
WebImpactCount == "Number of impacts must match criteria"
WebNumeric == "All criteria must be numeric"
WebPositive == "All criteria values must be positive"
WebValid == "Valid"

\* parse_weights that lets every sign through
parse_weights_any_sign(w) ==
    IF w = << >> THEN Invalid(WebWeightsEmpty)
    ELSE [ok |-> TRUE, msg |-> ""]

\* lines 110-120
parse_weights(w) ==
    IF w = << >> THEN Invalid(WebWeightsEmpty)
    ELSE IF \E i \in DOMAIN w : w[i] <= 0 THEN Invalid(WebWeightsSign)
    ELSE [ok |-> TRUE, msg |-> ""]

\* lines 123-142
parse_impacts(imp) ==
    IF imp = << >> THEN Invalid(WebImpactsEmpty)
    ELSE IF ~(\A i \in DOMAIN imp : imp[i] \in {"+", "-"}) THEN Invalid(WebImpactsSymbol)
    ELSE [ok |-> TRUE, msg |-> ""]

\* lines 145-174: the checks of the table, the two counts before the cells
app_validate_inputs(d, w, imp) ==
    IF d.ncols < MinColumns THEN Invalid(WebColumns)
    ELSE IF ~ToNumericRaises(Range(Identifiers(d))) THEN Invalid(WebIdentifiers)
    ELSE IF Len(w) # NumCriteria(d) THEN Invalid(WebWeightCount)
    ELSE IF Len(imp) # NumCriteria(d) THEN Invalid(WebImpactCount)
    ELSE IF ToNumericRaises(CriteriaCells(d)) THEN Invalid(WebNumeric)
    ELSE IF AnyNonPositive(CriteriaCells(d)) THEN Invalid(WebPositive)
    ELSE [ok |-> TRUE, msg |-> WebValid]

-----------------------------------------------------------------------------
(* The web service's stages and perform_topsis, app.py:177-237 *)

\* lines 177-182
app_normalize_matrix(crit) ==
    LET matrix == [i \in DOMAIN crit |-> [j \in DOMAIN crit[i] |-> AsFloat(crit[i][j])]]
        norms == [j \in 1..NumColumns(matrix) |-> SquaredNorm(matrix, j)]
    IN  [i \in DOMAIN matrix |->
            [j \in DOMAIN matrix[i] |-> DivideByNorm(matrix[i][j], norms[j])]]

\* lines 185-187
app_apply_weights(m, w) ==
    [i \in DOMAIN m |-> [j \in DOMAIN m[i] |-> Scale(m[i][j], WeightAt(w, j))]]

\* lines 190-203
app_find_ideal_solutions(m, imp) ==
    [ideal |-> [j \in 1..NumColumns(m) |->
                   IF imp[j] = "+" THEN ColMax(Column(m, j)) ELSE ColMin(Column(m, j))],
     anti_ideal |-> [j \in 1..NumColumns(m) |->
                   IF imp[j] = "+" THEN ColMin(Column(m, j)) ELSE ColMax(Column(m, j))]]

\* lines 206-210
app_calculate_separations(m, idl, anti) ==
    [s_plus |-> [i \in DOMAIN m |-> Distance(m[i], idl)],
     s_minus |-> [i \in DOMAIN m |-> Distance(m[i], anti)]]

\* lines 213-219
app_calculate_scores(sp, sm) ==
    LET sc == [i \in DOMAIN sp |->
                  IF SumNonZero(sp[i], sm[i]) THEN Quotient(sm[i], sp[i]) ELSE ScoreZero]
    IN  [scores |-> sc,
         ranks |-> IF AsTypeIntRaises(sc) THEN << >> ELSE RankMin(sc)]

\* lines 224-233 of perform_topsis: the scores and ranks, the frame that is
\* handed to sort_values, and whether a stage raised (max() of an empty
\* column, a NaN rank cast to int)
app_stages(d, w, imp) ==
    LET v == app_apply_weights(app_normalize_matrix(Criteria(d)), w)
        empty == v = << >>
        pts == IF empty THEN [ideal |-> << >>, anti_ideal |-> << >>]
               ELSE app_find_ideal_solutions(v, imp)
        sep == app_calculate_separations(v, pts.ideal, pts.anti_ideal)
        r == app_calculate_scores(sep.s_plus, sep.s_minus)
        raised == empty \/ AsTypeIntRaises(r.scores)
    IN  [raised |-> raised,
         scores |-> r.scores,
         ranks |-> r.ranks,
         frame |-> IF raised THEN << >> ELSE AttachColumns(d, r.scores, r.ranks)]

\* lines 222-237: the tables perform_topsis may return
perform_topsis(d, w, imp) == sort_values(app_stages(d, w, imp).frame)

-----------------------------------------------------------------------------
(* The handler of /api/analyze, app.py:339-485, one request at a time or    *)
(* several at once.  The form fields and the e-mail address are taken as    *)
(* present and well-formed; send_email changes nothing the service keeps.   *)

\* the files of UPLOAD_FOLDER: an upload is saved under the name the client
\* gave it, a result under the second it was written in
UploadPath(name) == << "upload", name >>
ResultPath(t) == << "topsis_result", t >>
NoPath == << "", 0 >>

Exists(path) == path \in DOMAIN uploads
Written(path, content) ==
    [q \in DOMAIN uploads \cup {path} |-> IF q = path THEN content ELSE uploads[q]]
Removed(path) == [q \in DOMAIN uploads \ {path} |-> uploads[q]]

WebConvertError == "Error converting file"
WebRaised == "500"

\* a request as it arrives: the uploaded file and the two lists
Request(name, table, w, imp) ==
    [pc |-> "parse", name |-> name, table |-> table, weights |-> w, impacts |-> imp,
     df |-> NoTable, scores |-> << >>, ranks |-> << >>, result_df |-> << >>,
     download_filename |-> NoPath, code |-> 0, error |-> ""]

\* the response is decided; the finally clause is still to run
Decided(r, code, error) == [req EXCEPT ![r].pc = "cleanup", ![r].code = code, ![r].error = error]

\* line 395: the name of the result file, to the second
result_filename(t) == ResultPath(t)

\* lines 358-366: the two lists are checked before the file is touched
WebParse(r) ==
    /\ req[r].pc = "parse"
    /\ LET pw == parse_weights(req[r].weights)
           pi == parse_impacts(req[r].impacts)
       IN  req' = IF ~pw.ok
                  THEN [req EXCEPT ![r].pc = "responded", ![r].code = 400, ![r].error = pw.msg]
                  ELSE IF ~pi.ok
                  THEN [req EXCEPT ![r].pc = "responded", ![r].code = 400, ![r].error = pi.msg]
                  ELSE [req EXCEPT ![r].pc = "save"]
    /\ UNCHANGED << uploads, now >>

\* lines 377-380: file.save under the client's file name
WebSave(r) ==
    /\ req[r].pc = "save"
    /\ uploads' = Written(UploadPath(req[r].name), req[r].table)
    /\ req' = [req EXCEPT ![r].pc = "read"]
    /\ UNCHANGED now

\* line 384: convert_to_csv reads the file at filepath, or raises
WebRead(r) ==
    /\ req[r].pc = "read"
    /\ req' = IF Exists(UploadPath(req[r].name))
              THEN [req EXCEPT ![r].pc = "analyze", ![r].df = uploads[UploadPath(req[r].name)]]
              ELSE Decided(r, 500, WebConvertError)
    /\ UNCHANGED << uploads, now >>

\* lines 387-397: validate, perform_topsis, write the result file
WebAnalyze(r) ==
    /\ req[r].pc = "analyze"
    /\ LET v == app_validate_inputs(req[r].df, req[r].weights, req[r].impacts)
       IN  IF ~v.ok
           THEN req' = Decided(r, 400, v.msg) /\ uploads' = uploads
           ELSE LET out == app_stages(req[r].df, req[r].weights, req[r].impacts)
                IN  IF out.raised
                    THEN req' = Decided(r, 500, WebRaised) /\ uploads' = uploads
                    ELSE \E sorted \in perform_topsis(req[r].df, req[r].weights, req[r].impacts) :
                           /\ req' = [req EXCEPT ![r].pc = "cleanup", ![r].code = 200,
                                                  ![r].scores = out.scores,
                                                  ![r].ranks = out.ranks,
                                                  ![r].result_df = sorted,
                                                  ![r].download_filename = result_filename(now)]
                           /\ uploads' = Written(result_filename(now),
                                                 [ncols |-> req[r].df.ncols + 2, rows |-> sorted])
    /\ UNCHANGED now

\* lines 479-482, then the response leaves
WebCleanup(r) ==
    /\ req[r].pc = "cleanup"
    /\ uploads' = IF Exists(UploadPath(req[r].name))
                  THEN Removed(UploadPath(req[r].name)) ELSE uploads
    /\ req' = [req EXCEPT ![r].pc = "responded"]
    /\ UNCHANGED now

\* a second passes
Tick ==
    /\ now < MaxClock
    /\ now' = now + 1
    /\ UNCHANGED << req, uploads >>

topsis_vars == << pc, input_file, out_wanted, df, weights, impacts, message, calls,
                  normalized, weighted, ideal, anti_ideal, s_plus, s_minus,
                  scores, ranks, result_df, out_file >>

Parse == \E r \in DOMAIN req : WebParse(r) /\ UNCHANGED topsis_vars
Save == \E r \in DOMAIN req : WebSave(r) /\ UNCHANGED topsis_vars
Read == \E r \in DOMAIN req : WebRead(r) /\ UNCHANGED topsis_vars
Analyze == \E r \in DOMAIN req : WebAnalyze(r) /\ UNCHANGED topsis_vars
Cleanup == \E r \in DOMAIN req : WebCleanup(r) /\ UNCHANGED topsis_vars
Clock == Tick /\ UNCHANGED topsis_vars

NextWeb ==
    \/ Parse
    \/ Save
    \/ Read
    \/ Analyze
    \/ Cleanup
    \/ Clock

\* topsis() is not running
NoRun ==
    /\ Unset
    /\ input_file = NoFile
    /\ out_wanted = FALSE
    /\ weights = << >>
    /\ impacts = << >>

\* one request on its own, over the inputs of the checks (tables of any mix
\* of cells, lists of any length and content, the empty list included) and
\* over valid tables that the stages rank
WebWeightLists == WeightLists \cup {<< >>}
WebImpactLists == ImpactLists \cup {<< >>}

InitApp ==
    /\ NoRun
    /\ uploads = << >>
    /\ now = 0
    /\ \/ \E n \in 0..MaxRowsW, k \in (MinColumns - 2)..(MinColumns - 1) :
            \E ids \in [1..n -> IdKinds], c \in [1..n -> [1..k -> CellKinds]] :
               \E w \in WebWeightLists, imp \in WebImpactLists :
                  req = << Request(1, [ncols |-> k + 1,
                                       rows |-> [i \in 1..n |-> << ids[i] >> \o c[i]]],
                                   w, imp) >>
       \/ \E n \in 1..MaxRows :
            \E c \in [1..n -> [1..(MinColumns - 1) -> EndCells]] :
               \E imp \in [1..(MinColumns - 1) -> {"+", "-"}] :
                  req = << Request(1, [ncols |-> MinColumns, rows |-> LabelledRows(n, c)],
                                   << 1, 2 >>, imp) >>

SpecApp == InitApp /\ [][NextWeb]_vars

\* two requests at once: each uploads its own valid table, under a name that
\* may be the other's
RaceTables ==
    {[ncols |-> MinColumns, rows |-> LabelledRows(MaxRowsW, c)] :
        c \in [1..MaxRowsW -> [1..(MinColumns - 1) -> EndCells]]}

InitWeb ==
    /\ NoRun
    /\ uploads = << >>
    /\ now = 0
    /\ \E n1, n2 \in 1..MaxNames : \E t1, t2 \in RaceTables :
          /\ t1 # t2
          /\ req = << Request(n1, t1, << 1, 2 >>, << "+", "-" >>),
                      Request(n2, t2, << 1, 2 >>, << "+", "-" >>) >>

SpecWeb == InitWeb /\ [][NextWeb]_vars

-----------------------------------------------------------------------------
(* Claims about validation *)

\* the state after lines 192-206 of a run that found its file
Validated == pc # "start" /\ input_file.exists

\* the eight checks as the validator's contract words them, each on its own
EveryIdentifierNumeric(d) == \A i \in DOMAIN d.rows : d.rows[i][1].k # "text"
SomeCellIsText(d) ==
    \E i \in DOMAIN d.rows : \E j \in 2..d.ncols : d.rows[i][j].k = "text"
SomeCellNotAboveZero(d) ==
    \E i \in DOMAIN d.rows : \E j \in 2..d.ncols :
        d.rows[i][j].k = "num" /\ ~(d.rows[i][j].v > 0)

CheckViolated(k, d, w, imp) ==
    CASE k = 1 -> d.ncols < 3
      [] k = 2 -> EveryIdentifierNumeric(d)
      [] k = 3 -> Len(w) # d.ncols - 1
      [] k = 4 -> \E i \in DOMAIN w : ~(w[i] > 0)
      [] k = 5 -> Len(imp) # d.ncols - 1
      [] k = 6 -> \E i \in DOMAIN imp : imp[i] # "+" /\ imp[i] # "-"
      [] k = 7 -> SomeCellIsText(d)
      [] k = 8 -> SomeCellNotAboveZero(d)

ViolatedChecks == {k \in 1..8 : CheckViolated(k, TableOf(input_file), weights, impacts)}

FailureOfCheck ==
    << MsgColumns, MsgIdentifiers, MsgWeightCount, MsgWeightSign,
       MsgImpactCount, MsgImpactSymbol, MsgNumeric, MsgPositive >>

\* C1: when one or more of the eight checks are violated, validate_inputs
\* reports the failure of the violated check that comes first in the order
\* columns, identifiers, weight count, weight sign, impact count, impact
\* symbol, non-numeric cell, cell <= 0; it reports a failure only then.
C1_EarliestViolatedCheckWins ==
    Validated =>
        /\ ViolatedChecks # {} => message = FailureOfCheck[Min(ViolatedChecks)]
        /\ ViolatedChecks = {} => message = MsgOK

\* a weight of 0, too few impacts and a non-positive cell at once: the weight
\* sign is reported
C1_Witness ==
    /\ Validated
    /\ {4, 5, 8} \subseteq ViolatedChecks
    /\ Min(ViolatedChecks) = 4
    /\ message = MsgWeightSign

\* what the contract calls a valid input: every criterion cell is a number
\* strictly greater than 0, so a missing cell is not valid
EveryCellPositiveNumber(d) ==
    \A i \in DOMAIN d.rows : \A j \in 2..d.ncols :
        d.rows[i][j].k = "num" /\ d.rows[i][j].v > 0

ContractValid(d, w, imp) ==
    /\ d.ncols >= 3
    /\ ~EveryIdentifierNumeric(d)
    /\ Len(w) = d.ncols - 1
    /\ Len(imp) = d.ncols - 1
    /\ \A i \in DOMAIN w : w[i] > 0
    /\ \A i \in DOMAIN imp : imp[i] \in {"+", "-"}
    /\ EveryCellPositiveNumber(d)

\* C2: validate_inputs returns valid exactly for the inputs of the contract,
\* tables with missing criterion cells included.
C2_ValidIffContract ==
    Validated => (message = MsgOK <=> ContractValid(TableOf(input_file), weights, impacts))

\* C3: when validation fails, the run has left with the validator's message:
\* no stage was invoked, no table is returned, no file is written.
C3_FailureIsTerminal ==
    (Validated /\ message # MsgOK) =>
        /\ pc = "exited"
        /\ message \in Range(FailureOfCheck)
        /\ calls = << >>
        /\ result_df = << >>
        /\ out_file = NothingWritten

\* a failed validation of a run that was asked to write its result
C3_Witness ==
    /\ pc = "exited"
    /\ message = MsgPositive
    /\ out_wanted
    /\ Len(df.rows) = 2

\* the table that was read has a header and no alternative
ZeroAlternatives == Validated /\ input_file.rows = << >>

\* C16: a table without alternatives ends the run in the validation failure
\* (too few columns, or a first column that converts to numbers), whatever the
\* weights and impacts: no stage is invoked and no column maximum or minimum
\* is taken.
C16_EmptyTableRejected ==
    ZeroAlternatives =>
        /\ pc = "exited"
        /\ message \in {MsgColumns, MsgIdentifiers}
        /\ calls = << >>
        /\ ideal = << >> /\ anti_ideal = << >>

\* a header of three columns and no row, with weights and impacts that fit
C16_Witness ==
    /\ ZeroAlternatives
    /\ df.ncols = MinColumns
    /\ weights = << 1, 2 >>
    /\ impacts = << "+", "-" >>
    /\ message = MsgIdentifiers
    /\ pc = "exited"

-----------------------------------------------------------------------------
(* Claims about the pipeline *)

StageOrder ==
    << "normalize_matrix", "apply_weights", "find_ideal_solutions",
       "calculate_separations", "calculate_scores" >>

\* the rows of the table as it was read
InputRows == input_file.rows

\* the five stages run in their order on the table as it was read
StagesInOrder ==
    LET v == apply_weights(normalize_matrix(Criteria(TableOf(input_file))), weights)
        pts == find_ideal_solutions(v, impacts)
        sep == calculate_separations(v, pts.ideal, pts.anti_ideal)
    IN  calculate_scores(sep.s_plus, sep.s_minus)

\* C4: the returned table holds every input alternative once, its cells as
\* read, with the Score and Rank the five stages computed for it in their
\* order; its rows are in ascending Rank; the written file is that table and
\* the input table is as it was read.
C4_ResultTable ==
    pc = "done" =>
        /\ calls = StageOrder
        /\ [scores |-> scores, ranks |-> ranks] = StagesInOrder
        /\ Len(result_df) = Len(InputRows)
        /\ \A i \in DOMAIN InputRows :
              Cardinality({a \in DOMAIN result_df : result_df[a].idx = i}) = 1
        /\ \A a \in DOMAIN result_df :
              /\ result_df[a].cells = InputRows[result_df[a].idx]
              /\ result_df[a].score = scores[result_df[a].idx]
              /\ result_df[a].rank = ranks[result_df[a].idx]
        /\ \A a, b \in DOMAIN result_df : a < b => result_df[a].rank <= result_df[b].rank
        /\ df = TableOf(input_file)
        /\ out_wanted => out_file = [written |-> TRUE, rows |-> result_df]

\* three alternatives returned in an order other than the input's
C4_Witness ==
    /\ pc = "done"
    /\ Len(result_df) = 3
    /\ result_df[1].idx = 3
    /\ result_df[3].idx = 1
    /\ result_df[1].rank < result_df[2].rank
    /\ result_df[2].rank < result_df[3].rank

\* C5: rows of equal Rank come out in their input order.
C5_StableSort ==
    pc = "done" =>
        \A a, b \in DOMAIN result_df :
            (a < b /\ result_df[a].rank = result_df[b].rank)
                => result_df[a].idx < result_df[b].idx

RanksKnown == pc \in {"result", "done"}

Alternatives == DOMAIN scores

GreaterScores(i) == {k \in Alternatives : ScoreLT(scores[i], scores[k])}

\* C6: an alternative's rank is one more than the number of alternatives of
\* strictly greater score; so equal scores share a rank, rank 1 goes to exactly
\* the alternatives of maximal score, and there are no more ranks than rows.
C6_MinimumCompetitionRanking ==
    RanksKnown =>
        /\ \A i \in Alternatives : ranks[i] = 1 + Cardinality(GreaterScores(i))
        /\ \A i, k \in Alternatives : ScoreEq(scores[i], scores[k]) => ranks[i] = ranks[k]
        /\ \A i \in Alternatives :
              ranks[i] = 1 <=> \A k \in Alternatives : ~ScoreLT(scores[i], scores[k])
        /\ Cardinality(Range(ranks)) <= Len(scores)

\* two alternatives tied at the top, and the third ranked 3, not 2
C6_Witness ==
    /\ RanksKnown
    /\ Len(ranks) = 3
    /\ ranks[1] = 1 /\ ranks[3] = 1 /\ ranks[2] = 3
    /\ scores[1] # ScoreZero

SeparationsKnown == pc \in {"scores", "result", "done"} \/ (pc = "raised" /\ s_plus # << >>)
ScoresKnown == scores # << >>

\* a separation sqrt(n/d) is a number >= 0
NonNegative(x) == ~IsNaN(x) /\ x.n >= 0 /\ x.d > 0

\* a score sqrt(n)/(sqrt(n)+sqrt(d)) is a number of [0, 1]
InUnitInterval(x) == ~IsNaN(x) /\ x.n >= 0 /\ x.d >= 0 /\ x.n + x.d > 0

\* C7: for every input validate_inputs accepts, both separations of every
\* alternative are >= 0 and its score lies in [0, 1].
C7_ScoresInUnitInterval ==
    (Validated /\ message = MsgOK) =>
        /\ SeparationsKnown =>
              \A i \in DOMAIN s_plus : NonNegative(s_plus[i]) /\ NonNegative(s_minus[i])
        /\ ScoresKnown => \A i \in DOMAIN scores : InUnitInterval(scores[i])

IdealKnown == ideal # << >>

IsColumnMax(m, col) == m \in Range(col) /\ \A x \in Range(col) : SurdLE(x, m)
IsColumnMin(m, col) == m \in Range(col) /\ \A x \in Range(col) : SurdLE(m, x)

\* C8: for a benefit column the ideal is the column maximum and the anti-ideal
\* the column minimum of the weighted matrix; for a cost column the ideal is
\* the minimum and the anti-ideal the maximum.
C8_IdealSelection ==
    IdealKnown =>
        \A j \in DOMAIN ideal :
            /\ impacts[j] = "+" =>
                  /\ IsColumnMax(ideal[j], Column(weighted, j))
                  /\ IsColumnMin(anti_ideal[j], Column(weighted, j))
            /\ impacts[j] = "-" =>
                  /\ IsColumnMin(ideal[j], Column(weighted, j))
                  /\ IsColumnMax(anti_ideal[j], Column(weighted, j))

\* a benefit and a cost column, neither constant
C8_Witness ==
    /\ IdealKnown
    /\ impacts = << "+", "-" >>
    /\ ~SurdEq(ideal[1], anti_ideal[1])
    /\ ~SurdEq(ideal[2], anti_ideal[2])
    /\ Len(weighted) = 3

IsConstant(col) == \A x, y \in Range(col) : SurdEq(x, y)

\* C9 as claimed: in every column, of either impact, ideal >= anti-ideal, with
\* equality only in a constant column.
C9_IdealAboveAntiIdeal ==
    IdealKnown =>
        \A j \in DOMAIN ideal :
            /\ SurdLE(anti_ideal[j], ideal[j])
            /\ SurdEq(ideal[j], anti_ideal[j]) => IsConstant(Column(weighted, j))

\* C9 amended: for a table of positive numbers, ideal >= anti-ideal in a
\* benefit column and ideal <= anti-ideal in a cost column, with equality only
\* in a constant column.
C9_IdealOrderedByImpact ==
    (IdealKnown /\ EveryCellPositiveNumber(df)) =>
        \A j \in DOMAIN ideal :
            /\ impacts[j] = "+" => SurdLE(anti_ideal[j], ideal[j])
            /\ impacts[j] = "-" => SurdLE(ideal[j], anti_ideal[j])
            /\ SurdEq(ideal[j], anti_ideal[j]) => IsConstant(Column(weighted, j))

\* a cost column whose ideal lies strictly below its anti-ideal, beside a
\* constant benefit column
C9_Witness ==
    /\ IdealKnown
    /\ EveryCellPositiveNumber(df)
    /\ impacts = << "+", "-" >>
    /\ SurdEq(ideal[1], anti_ideal[1])
    /\ SurdLE(ideal[2], anti_ideal[2])
    /\ ~SurdEq(ideal[2], anti_ideal[2])

SingleRow == Len(df.rows) = 1
EveryColumnConstant ==
    \A j \in 2..df.ncols : \A i, k \in DOMAIN df.rows : df.rows[i][j] = df.rows[k][j]

\* C10: an alternative whose two separations sum to 0 gets the score 0, never
\* NaN; in a table of one row, or of constant columns, every alternative gets
\* score 0 and rank 1.
C10_ZeroDenominatorScoresZero ==
    (ScoresKnown /\ EveryCellPositiveNumber(df)) =>
        /\ \A i \in DOMAIN scores :
              (s_plus[i] = Val(0, 1) /\ s_minus[i] = Val(0, 1)) => scores[i] = ScoreZero
        /\ (SingleRow \/ EveryColumnConstant) =>
              /\ \A i \in DOMAIN scores : scores[i] = ScoreZero
              /\ pc # "raised"
              /\ \A i \in DOMAIN ranks : ranks[i] = 1
              /\ Len(ranks) = Len(df.rows)

\* three equal rows ranked: all separations are 0
C10_Witness ==
    /\ pc = "done"
    /\ Len(df.rows) = 3
    /\ EveryColumnConstant
    /\ \A i \in DOMAIN scores : s_plus[i] = Val(0, 1) /\ s_minus[i] = Val(0, 1)
    /\ ranks = << 1, 1, 1 >>

\* alternative i has the strictly largest / smallest value of every criterion
StrictlyLargest(i) ==
    \A k \in DOMAIN df.rows \ {i} : \A j \in 2..df.ncols :
        df.rows[k][j].v < df.rows[i][j].v
StrictlySmallest(i) ==
    \A k \in DOMAIN df.rows \ {i} : \A j \in 2..df.ncols :
        df.rows[i][j].v < df.rows[k][j].v

AllBenefit == \A j \in DOMAIN impacts : impacts[j] = "+"

\* what C13 promises the alternatives of a table
DominantFirstDominatedLast ==
    \A i \in DOMAIN df.rows :
        /\ StrictlyLargest(i) => (scores[i] = ScoreOne /\ ranks[i] = 1)
        /\ StrictlySmallest(i) => (scores[i] = ScoreZero /\ ranks[i] = Len(df.rows))

\* C13 as claimed: under benefit impacts and positive weights the strictly
\* largest alternative of every column has score 1 and rank 1, the strictly
\* smallest score 0 and the last rank, in every table.
C13_DominantScoresOne ==
    (RanksKnown /\ AllBenefit /\ EveryCellPositiveNumber(df)) => DominantFirstDominatedLast

\* C13 amended: the same in every table of two or more alternatives; the
\* alternative of a one-row table has score 0 and rank 1.
C13_DominantAmongSeveral ==
    (RanksKnown /\ AllBenefit /\ EveryCellPositiveNumber(df)) =>
        /\ Len(df.rows) >= 2 => DominantFirstDominatedLast
        /\ Len(df.rows) = 1 => (scores = << ScoreZero >> /\ ranks = << 1 >>)

\* two alternatives, the second strictly largest and the first strictly
\* smallest in both criteria
C13_Witness ==
    /\ RanksKnown
    /\ AllBenefit
    /\ Len(df.rows) = 2
    /\ StrictlyLargest(2)
    /\ StrictlySmallest(1)
    /\ scores = << ScoreZero, ScoreOne >>
    /\ ranks = << 2, 1 >>

\* normalize_matrix has just returned
NormalizedKnown == pc = "weights"

\* the square of a value n/sqrt(d), a ratio
SquareOfSurd(x) == IF IsNaN(x) THEN NaN ELSE Reduced(x.n * x.n, x.d)

\* the sum of the squares of column j of the normalized matrix
SquaredLength(j) == RatSum([i \in DOMAIN normalized |-> SquareOfSurd(normalized[i][j])])

\* the sum of the squares of criterion j of the table
SumOfSquaredCells(j) ==
    RatSum([i \in DOMAIN df.rows |-> Val(df.rows[i][j + 1].v * df.rows[i][j + 1].v, 1)])

\* C14: for a table of positive numbers the normalized matrix has the shape
\* of the criteria, its entry (i, j) is a_ij / sqrt(sum_i a_ij^2), and the
\* squares of every column sum to 1.
C14_UnitColumns ==
    (NormalizedKnown /\ EveryCellPositiveNumber(df)) =>
        /\ Len(normalized) = Len(df.rows)
        /\ \A i \in DOMAIN normalized : Len(normalized[i]) = NumCriteria(df)
        /\ \A i \in DOMAIN normalized : \A j \in 1..NumCriteria(df) :
              /\ normalized[i][j].n = df.rows[i][j + 1].v
              /\ Val(normalized[i][j].d, 1) = SumOfSquaredCells(j)
        /\ \A j \in 1..NumCriteria(df) : SquaredLength(j) = Val(1, 1)

\* three alternatives with a column of unequal values
C14_Witness ==
    /\ NormalizedKnown
    /\ Len(normalized) = 3
    /\ normalized[1][1] # normalized[2][1]
    /\ normalized[1][2].n = 2

\* result['Rank'].max() and len(result)
LargestRank == Max({result_df[a].rank : a \in DOMAIN result_df})

\* the alternatives of the result that no other scores below
LowestScored ==
    {a \in DOMAIN result_df :
        \A b \in DOMAIN result_df : ~ScoreLT(result_df[b].score, result_df[a].score)}

\* C15 as claimed: the largest Rank of every returned table is the number of
\* its alternatives.
C15_LargestRankIsCount ==
    pc = "done" => LargestRank = Len(result_df)

\* C15 amended: the largest Rank is the number of alternatives less the
\* number of other alternatives tied at the lowest score; it is the number of
\* alternatives exactly when one alternative alone has the lowest score.
C15_LargestRankCountsLowestTies ==
    pc = "done" =>
        /\ LargestRank = Len(result_df) - Cardinality(LowestScored) + 1
        /\ LargestRank <= Len(result_df)
        /\ LargestRank = Len(result_df) <=> Cardinality(LowestScored) = 1

\* three alternatives, two of them tied at the lowest score below the third
C15_Witness ==
    /\ pc = "done"
    /\ Len(result_df) = 3
    /\ Cardinality(LowestScored) = 2
    /\ LargestRank = 2

-----------------------------------------------------------------------------
(* Claims relating two runs *)

\* the five stages on a criteria matrix: what a run on that matrix computes
ScoresAndRanks(crit, w, imp) ==
    LET v == apply_weights(normalize_matrix(crit), w)
        pts == find_ideal_solutions(v, imp)
        sep == calculate_separations(v, pts.ideal, pts.anti_ideal)
    IN  calculate_scores(sep.s_plus, sep.s_minus)

\* a sequence with its members taken in the order p
Reordered(s, p) == [a \in DOMAIN p |-> s[p[a]]]

\* C11: whatever the order in which the alternatives are given, each
\* alternative receives the score and the rank this run gave it.
C11_PermutationInvariance ==
    pc = "result" =>
        \A p \in Orderings(DOMAIN df.rows) :
            ScoresAndRanks(Reordered(Criteria(df), p), weights, impacts)
                = [scores |-> Reordered(scores, p), ranks |-> Reordered(ranks, p)]

\* three alternatives of three different ranks, given in another order than
\* that of their ranks
C11_Witness ==
    /\ pc = "result"
    /\ Len(ranks) = 3
    /\ Cardinality(Range(ranks)) = 3
    /\ ranks[1] # 1

\* the weights of the run, each multiplied by k
ScaledWeights(k) == [j \in DOMAIN weights |-> k * weights[j]]

\* C12: with every weight multiplied by the same constant k > 0, every
\* alternative receives the score and the rank this run gave it.
C12_WeightScaleInvariance ==
    pc = "result" =>
        \A k \in 2..MaxScale :
            ScoresAndRanks(Criteria(df), ScaledWeights(k), impacts)
                = [scores |-> scores, ranks |-> ranks]

\* three alternatives whose scores depend on the weighting: equal weights
\* give other scores than the weights of the run
C12_Witness ==
    /\ pc = "result"
    /\ Len(scores) = 3
    /\ ScoresAndRanks(Criteria(df), << 1, 1 >>, impacts).scores # scores
    /\ ranks[1] # ranks[2]

-----------------------------------------------------------------------------
(* Claims about the web service *)

\* what topsis.validate_inputs and the stages of topsis() make of the inputs
\* of request r
CliAccepts(r) == validate_inputs(req[r].table, req[r].weights, req[r].impacts).ok
CliStages(r) == ScoresAndRanks(Criteria(req[r].table), req[r].weights, req[r].impacts)
CliRaises(r) == req[r].table.rows = << >> \/ AsTypeIntRaises(CliStages(r).scores)

\* C17: the web service's checks turn a request away exactly when
\* topsis.validate_inputs turns its table and lists away; when they let it
\* through, perform_topsis computes the scores and ranks of topsis() and
\* returns the rows as sort_values orders that same table, and it raises
\* exactly when topsis() raises.
C17_WebEquivalentToCLI ==
    \A r \in DOMAIN req :
        req[r].code # 0 =>
            /\ req[r].code # 400 <=> CliAccepts(r)
            /\ req[r].code = 500 <=> (CliAccepts(r) /\ CliRaises(r))
            /\ req[r].code = 200 =>
                  /\ [scores |-> req[r].scores, ranks |-> req[r].ranks] = CliStages(r)
                  /\ req[r].result_df \in
                        sort_values(AttachColumns(req[r].table, req[r].scores, req[r].ranks))

\* a request answered with three ranked alternatives, the third first
C17_Witness ==
    /\ req[1].pc = "responded"
    /\ req[1].code = 200
    /\ Len(req[1].result_df) = 3
    /\ req[1].result_df[1].idx = 3
    /\ req[1].ranks = << 3, 2, 1 >>

\* request r read the file it uploaded, and the file was there
ReadOwnUpload(r) ==
    req[r].pc \in {"analyze", "cleanup", "responded"} =>
        /\ req[r].error # WebConvertError
        /\ req[r].code # 500 => req[r].df = req[r].table

\* the file named in the response of request r holds the result of r
ResultFileIsOwn(r) ==
    (req[r].pc = "responded" /\ req[r].code = 200) =>
        /\ Exists(req[r].download_filename)
        /\ uploads[req[r].download_filename].rows = req[r].result_df
        /\ \A a \in DOMAIN req[r].result_df :
              req[r].result_df[a].cells = req[r].table.rows[req[r].result_df[a].idx]

\* C18: whatever the interleaving of two requests, each reads the file it
\* uploaded, which exists when it is read, and the result file named in its
\* response holds its own result.
C18_RequestsIsolated ==
    \A r \in DOMAIN req : ReadOwnUpload(r) /\ ResultFileIsOwn(r)

====
